---- MODULE Spec2Model ----
(***************************************************************************)
(* Model of DatabaseManager (src/database.py): three SQLite tables         *)
(* (receitas, despesas, metas) with AUTOINCREMENT primary keys, the CRUD   *)
(* methods over them, the bulk import and the clear operation.             *)
(*                                                                         *)
(* Values.  A Python date is a triple <<year, month, day>>.  sqlite3       *)
(* adapts a date parameter to its ISO text, which is what the DATE column  *)
(* stores and what the WHERE / ORDER BY clauses compare (byte-wise); a     *)
(* text is a sequence of character codes.  pd.to_datetime parses the       *)
(* text back when a DataFrame is built.  An Optional argument is a         *)
(* sequence of length 0 (None) or 1.  Amounts are integers (currency       *)
(* units); a REAL column keeps a Python float bit for bit.  The            *)
(* created_at / updated_at columns are not modelled: no operation reads    *)
(* them.                                                                   *)
(*                                                                         *)
(* Calls.  The manager is used synchronously: a call runs to completion,   *)
(* the caller takes what it returned (retornar) and makes its next call.   *)
(*                                                                         *)
(* The Streamlit application (src/app.py) does not use the manager: it     *)
(* keeps its records in three CSV files, reloads them at the start of      *)
(* every run of the script and computes the goal progress from them.  It   *)
(* is modelled by the variable csv and the specification SpecApp.          *)
(***************************************************************************)
EXTENDS Integers, Sequences, FiniteSets, TLC

\* Bound: total number of rowids the three tables may hand out.
MaxIds == 2

Tabelas == {"receitas", "despesas", "metas"}

None == <<>>
Some(v) == <<v>>

----------------------------------------------------------------------------
\* Input values

Datas == {<<2024, 2, 1>>, <<2024, 10, 5>>}
StatusArgs == {None, Some(""), Some("concluida")}

Registro(data, descricao, valor, categoria) ==
    [data |-> data, descricao |-> descricao, valor |-> valor,
     categoria |-> categoria]

\* The records the callers pass: two well-formed ones that differ in every
\* field, and one each with an empty description, a zero and a negative amount.
Entradas ==
    {Registro(<<2024, 2, 1>>, "x", 1, "A"),
     Registro(<<2024, 10, 5>>, "y", 2, "B"),
     Registro(<<2024, 2, 1>>, "", 1, "B"),
     Registro(<<2024, 2, 1>>, "x", 0, "A"),
     Registro(<<2024, 10, 5>>, "x", -1, "B")}

Categorias == {"", "A", "B"}

----------------------------------------------------------------------------
\* Dates as SQLite sees them

Digito(n) == 48 + n
Pad2(n) == <<Digito(n \div 10), Digito(n % 10)>>
Pad4(n) == <<Digito(n \div 1000), Digito((n \div 100) % 10),
             Digito((n \div 10) % 10), Digito(n % 10)>>

\* sqlite3's default adapter for datetime.date: date.isoformat()
\* (45 is the code of "-", 48 that of "0")
adapt_date(d) == Pad4(d[1]) \o <<45>> \o Pad2(d[2]) \o <<45>> \o Pad2(d[3])

RECURSIVE NumDe(_)
NumDe(s) == IF s = <<>> THEN 0
            ELSE 10 * NumDe(SubSeq(s, 1, Len(s) - 1)) + (s[Len(s)] - 48)

\* pd.to_datetime on a column of ISO texts
to_datetime(t) == <<NumDe(SubSeq(t, 1, 4)), NumDe(SubSeq(t, 6, 7)),
                    NumDe(SubSeq(t, 9, 10))>>

\* SQLite's comparison of two TEXT values (BINARY collation, memcmp)
RECURSIVE TextoMenor(_, _)
TextoMenor(a, b) ==
    IF b = <<>> THEN FALSE
    ELSE IF a = <<>> THEN TRUE
    ELSE IF a[1] # b[1] THEN a[1] < b[1]
    ELSE TextoMenor(Tail(a), Tail(b))

TextoMenorIgual(a, b) == a = b \/ TextoMenor(a, b)

----------------------------------------------------------------------------
VARIABLES
    db,               \* the table contents: db[t] maps a rowid to its row
    sqlite_sequence,  \* SQLite's AUTOINCREMENT bookkeeping, per table
    last,             \* the call that has just returned: method, table,
                      \* arguments, return value; Ocioso between calls
    emitidos,         \* history: per table, the ids _execute_insert returned
    excluidos,        \* history: per table, ids of stored rows excluir_* removed
    csv,              \* app.py: the rows of dados/<arquivo>.csv, per file
    abertas           \* connections the call that has just returned opened
                      \* and left open

vars == <<db, sqlite_sequence, last, emitidos, excluidos, csv, abertas>>

\* the files app.py keeps under dados/; none exists before the first save
Arquivos == {"receitas", "despesas", "metas"}

Max(S) == CHOOSE x \in S : \A y \in S : y <= x

SemLinhas == [i \in {} |-> 0]

\* CREATE TABLE IF NOT EXISTS on a fresh file: empty tables, no sequence rows
create_tables ==
    /\ db = [t \in Tabelas |-> SemLinhas]
    /\ sqlite_sequence = [t \in Tabelas |-> 0]

Chamada(op, tabela, args, ret) ==
    [op |-> op, tabela |-> tabela, args |-> args, ret |-> ret]

\* no call has returned a value the caller still holds
Ocioso == Chamada("", "", <<>>, <<>>)

Init ==
    /\ create_tables
    /\ last = Ocioso
    /\ emitidos = [t \in Tabelas |-> <<>>]
    /\ excluidos = [t \in Tabelas |-> {}]
    /\ csv = [a \in Arquivos |-> <<>>]
    /\ abertas = 0

\* The persisted part of the state, as a value the helpers below transform.
Banco == [db |-> db, seq |-> sqlite_sequence, emitidos |-> emitidos]

TotalIds(b) == b.seq["receitas"] + b.seq["despesas"] + b.seq["metas"]

\* Python truthiness of an Optional[str] / Optional[date] argument:
\* None and "" are falsy, a date never is.
Truthy(opt) == opt # None /\ opt[1] # ""

----------------------------------------------------------------------------
\* Statements

\* INTEGER PRIMARY KEY AUTOINCREMENT: one more than the largest rowid the
\* table has ever held, which SQLite keeps in sqlite_sequence.
RowidReutilizado(b, t) == Max({0} \cup DOMAIN b.db[t]) + 1
ProximoRowid(b, t) == Max({b.seq[t]} \cup DOMAIN b.db[t]) + 1

ComLinha(tab, id, row) ==
    [i \in DOMAIN tab \cup {id} |-> IF i = id THEN row ELSE tab[i]]

SemLinha(tab, id) == [i \in DOMAIN tab \ {id} |-> tab[i]]

\* _execute_insert: INSERT, cursor.lastrowid, commit
execute_insert(b, t, row) ==
    LET id == ProximoRowid(b, t) IN
    [db |-> [b.db EXCEPT ![t] = ComLinha(@, id, row)],
     seq |-> [b.seq EXCEPT ![t] = id],
     emitidos |-> [b.emitidos EXCEPT ![t] = Append(@, id)],
     lastrowid |-> id]

\* the parameter tuple with descricao and categoria in each other's place
LinhaTransacaoTrocada(data, descricao, valor, categoria) ==
    [data |-> adapt_date(data), descricao |-> categoria, valor |-> valor,
     categoria |-> descricao]

\* INSERT INTO receitas / despesas (data, descricao, valor, categoria)
LinhaTransacao(data, descricao, valor, categoria) ==
    [data |-> adapt_date(data), descricao |-> descricao, valor |-> valor,
     categoria |-> categoria]

\* INSERT INTO metas (data_limite, descricao, valor_meta, categoria);
\* status takes the column default
LinhaMeta(data_limite, descricao, valor_meta, categoria) ==
    [data_limite |-> adapt_date(data_limite), descricao |-> descricao,
     valor_meta |-> valor_meta, categoria |-> categoria, status |-> "ativa"]

\* a DELETE whose transaction is never committed
delete_sem_commit(b, t, id) == b

\* the DELETE run against every table
delete_em_cascata(b, t, id) ==
    [b EXCEPT !.db = [u \in Tabelas |-> SemLinha(@[u], id)]]

\* DELETE FROM t WHERE id = ?
delete_where_id(b, t, id) == [b EXCEPT !.db[t] = SemLinha(@, id)]

\* the third DELETE statement left out
delete_all_sem_metas(b) ==
    [b EXCEPT !.db = [t \in Tabelas |-> IF t = "metas" THEN @[t] ELSE SemLinhas]]

\* DELETE FROM receitas; DELETE FROM despesas; DELETE FROM metas
delete_all(b) == [b EXCEPT !.db = [t \in Tabelas |-> SemLinhas]]

Grava(b) ==
    /\ db' = b.db
    /\ sqlite_sequence' = b.seq
    /\ emitidos' = b.emitidos

----------------------------------------------------------------------------
\* Receitas / despesas / metas: adicionar

adicionar_receita(data, descricao, valor, categoria) ==
    /\ last = Ocioso
    /\ UNCHANGED <<csv, abertas>>
    /\ TotalIds(Banco) < MaxIds
    /\ LET r == execute_insert(Banco, "receitas",
                    LinhaTransacao(data, descricao, valor, categoria)) IN
       /\ Grava(r)
       /\ last' = Chamada("adicionar", "receitas",
                          <<data, descricao, valor, categoria>>, r.lastrowid)
    /\ UNCHANGED excluidos

adicionar_despesa(data, descricao, valor, categoria) ==
    /\ last = Ocioso
    /\ UNCHANGED <<csv, abertas>>
    /\ TotalIds(Banco) < MaxIds
    /\ LET r == execute_insert(Banco, "despesas",
                    LinhaTransacao(data, descricao, valor, categoria)) IN
       /\ Grava(r)
       /\ last' = Chamada("adicionar", "despesas",
                          <<data, descricao, valor, categoria>>, r.lastrowid)
    /\ UNCHANGED excluidos

adicionar_meta(data_limite, descricao, valor_meta, categoria) ==
    /\ last = Ocioso
    /\ UNCHANGED <<csv, abertas>>
    /\ TotalIds(Banco) < MaxIds
    /\ LET r == execute_insert(Banco, "metas",
                    LinhaMeta(data_limite, descricao, valor_meta, categoria)) IN
       /\ Grava(r)
       /\ last' = Chamada("adicionar", "metas",
                          <<data_limite, descricao, valor_meta, categoria>>,
                          r.lastrowid)
    /\ UNCHANGED excluidos

----------------------------------------------------------------------------
\* Queries.  A query is an operator giving the set of DataFrames the call may
\* return: ORDER BY names one column only, and SQL leaves the relative order
\* of rows with equal sort keys to the engine.

Permutacoes(S) ==
    {s \in [1..Cardinality(S) -> S] :
        \A i, j \in 1..Cardinality(S) : i # j => s[i] # s[j]}

\* ORDER BY chave ASC / DESC over the rows S: every order in which the keys
\* (chave maps a rowid to its TEXT key) never decrease / never increase
OrdensAsc(S, chave) ==
    {s \in Permutacoes(S) :
        \A i, j \in 1..Cardinality(S) :
            i < j => ~TextoMenor(chave[s[j]], chave[s[i]])}

OrdensDesc(S, chave) ==
    {s \in Permutacoes(S) :
        \A i, j \in 1..Cardinality(S) :
            i < j => ~TextoMenor(chave[s[i]], chave[s[j]])}

\* the lower bound written as data > ?
FiltroTransacaoEstrito(row, data_inicio, data_fim, categoria) ==
    /\ Truthy(data_inicio) => TextoMenor(adapt_date(data_inicio[1]), row.data)
    /\ Truthy(data_fim) => TextoMenorIgual(row.data, adapt_date(data_fim[1]))
    /\ Truthy(categoria) => row.categoria = categoria[1]

\* the WHERE clause obter_receitas / obter_despesas builds
FiltroTransacao(row, data_inicio, data_fim, categoria) ==
    /\ Truthy(data_inicio) => TextoMenorIgual(adapt_date(data_inicio[1]), row.data)
    /\ Truthy(data_fim) => TextoMenorIgual(row.data, adapt_date(data_fim[1]))
    /\ Truthy(categoria) => row.categoria = categoria[1]

\* pd.DataFrame(results, columns=[...]) with df['data'] = pd.to_datetime(...)
FrameTransacao(tab, s) ==
    [i \in 1..Len(s) |->
        [id |-> s[i], data |-> to_datetime(tab[s[i]].data),
         descricao |-> tab[s[i]].descricao, valor |-> tab[s[i]].valor,
         categoria |-> tab[s[i]].categoria]]

\* SELECT * FROM t WHERE ... ORDER BY data DESC
SelectTransacoes(b, t, data_inicio, data_fim, categoria) ==
    LET tab == b.db[t]
        ids == {i \in DOMAIN tab :
                  FiltroTransacao(tab[i], data_inicio, data_fim, categoria)}
    IN  {FrameTransacao(tab, s) :
            s \in OrdensDesc(ids, [i \in ids |-> tab[i].data])}

obter_receitas(b, data_inicio, data_fim, categoria) ==
    SelectTransacoes(b, "receitas", data_inicio, data_fim, categoria)

obter_despesas(b, data_inicio, data_fim, categoria) ==
    SelectTransacoes(b, "despesas", data_inicio, data_fim, categoria)

\* the WHERE clause obter_metas builds
FiltroMeta(row, status, categoria) ==
    /\ Truthy(status) => row.status = status[1]
    /\ Truthy(categoria) => row.categoria = categoria[1]

FrameMeta(tab, s) ==
    [i \in 1..Len(s) |->
        [id |-> s[i], data_limite |-> to_datetime(tab[s[i]].data_limite),
         descricao |-> tab[s[i]].descricao, valor_meta |-> tab[s[i]].valor_meta,
         categoria |-> tab[s[i]].categoria, status |-> tab[s[i]].status]]

\* SELECT * FROM metas WHERE ... ORDER BY data_limite ASC
obter_metas(b, status, categoria) ==
    LET tab == b.db["metas"]
        ids == {i \in DOMAIN tab : FiltroMeta(tab[i], status, categoria)}
    IN  {FrameMeta(tab, s) :
            s \in OrdensAsc(ids, [i \in ids |-> tab[i].data_limite])}

OptDatas == {None} \cup {Some(d) : d \in Datas}
OptCategorias == {None} \cup {Some(c) : c \in Categorias}
OptStatus == {None, Some(""), Some("ativa"), Some("concluida")}

chamar_obter_receitas(data_inicio, data_fim, categoria) ==
    /\ last = Ocioso
    /\ UNCHANGED <<csv, abertas>>
    /\ \E df \in obter_receitas(Banco, data_inicio, data_fim, categoria) :
         last' = Chamada("obter", "receitas",
                         <<data_inicio, data_fim, categoria>>, df)
    /\ UNCHANGED <<db, sqlite_sequence, emitidos, excluidos>>

chamar_obter_despesas(data_inicio, data_fim, categoria) ==
    /\ last = Ocioso
    /\ UNCHANGED <<csv, abertas>>
    /\ \E df \in obter_despesas(Banco, data_inicio, data_fim, categoria) :
         last' = Chamada("obter", "despesas",
                         <<data_inicio, data_fim, categoria>>, df)
    /\ UNCHANGED <<db, sqlite_sequence, emitidos, excluidos>>

chamar_obter_metas(status, categoria) ==
    /\ last = Ocioso
    /\ UNCHANGED <<csv, abertas>>
    /\ \E df \in obter_metas(Banco, status, categoria) :
         last' = Chamada("obter", "metas", <<status, categoria>>, df)
    /\ UNCHANGED <<db, sqlite_sequence, emitidos, excluidos>>

----------------------------------------------------------------------------
\* Statistics.  Python's / on two numbers is modelled exactly: a quotient is
\* a fraction in lowest terms with a positive denominator.

Abs(n) == IF n < 0 THEN -n ELSE n

RECURSIVE MDC(_, _)
MDC(a, b) == IF b = 0 THEN a ELSE MDC(b, a % b)

\* n / d, for d # 0
Razao(n, d) ==
    LET g == MDC(Abs(n), Abs(d))
        s == IF d < 0 THEN -1 ELSE 1
    IN  [num |-> (s * n) \div g, den |-> (s * d) \div g]

\* the date filter the statistics methods build: BETWEEN with both bounds,
\* >= or <= with one, nothing with none
FiltroPeriodoEstrito(data, data_inicio, data_fim) ==
    IF Truthy(data_inicio) /\ Truthy(data_fim)
    THEN /\ TextoMenor(adapt_date(data_inicio[1]), data)
         /\ TextoMenor(data, adapt_date(data_fim[1]))
    ELSE IF Truthy(data_inicio)
    THEN TextoMenorIgual(adapt_date(data_inicio[1]), data)
    ELSE IF Truthy(data_fim)
    THEN TextoMenorIgual(data, adapt_date(data_fim[1]))
    ELSE TRUE

FiltroPeriodo(data, data_inicio, data_fim) ==
    IF Truthy(data_inicio) /\ Truthy(data_fim)
    THEN /\ TextoMenorIgual(adapt_date(data_inicio[1]), data)
         /\ TextoMenorIgual(data, adapt_date(data_fim[1]))
    ELSE IF Truthy(data_inicio)
    THEN TextoMenorIgual(adapt_date(data_inicio[1]), data)
    ELSE IF Truthy(data_fim)
    THEN TextoMenorIgual(data, adapt_date(data_fim[1]))
    ELSE TRUE

Selecionados(tab, data_inicio, data_fim) ==
    {i \in DOMAIN tab : FiltroPeriodo(tab[i].data, data_inicio, data_fim)}

\* SUM(DISTINCT valor): a value met before is not added again
RECURSIVE SUM_DISTINCT(_, _)
SUM_DISTINCT(tab, s) ==
    IF s = <<>> THEN None
    ELSE LET resto == SUM_DISTINCT(tab, Tail(s))
             v == tab[Head(s)].valor
         IN  IF resto = None THEN Some(v)
             ELSE IF \E k \in 2..Len(s) : tab[s[k]].valor = v THEN resto
             ELSE Some(v + resto[1])

\* SUM(valor) over the rows in the order s in which the scan meets them:
\* NULL (None) over no rows
RECURSIVE SUM(_, _)
SUM(tab, s) ==
    IF s = <<>> THEN None
    ELSE LET resto == SUM(tab, Tail(s)) IN
         IF resto = None THEN Some(tab[Head(s)].valor)
         ELSE Some(tab[Head(s)].valor + resto[1])

\* the values SUM may give over the rows ids, one per scan order
Somas(tab, ids) == {SUM(tab, s) : s \in Permutacoes(ids)}

\* result[0][0] if result and result[0][0] else 0
TotalOuZero(soma) == IF soma = None \/ soma[1] = 0 THEN 0 ELSE soma[1]

\* (total_despesas / total_receitas * 100) if total_receitas > 0 else 0
percentual_despesas(total_despesas, total_receitas) ==
    IF total_receitas > 0
    THEN Razao(total_despesas * 100, total_receitas)
    ELSE Razao(0, 1)

\* the balance with the expenses added instead of subtracted
EstatisticasSaldoSomado(total_receitas, total_despesas, count_receitas, count_despesas) ==
    [total_receitas |-> total_receitas,
     total_despesas |-> total_despesas,
     saldo |-> total_receitas + total_despesas,
     percentual_despesas |-> percentual_despesas(total_despesas, total_receitas),
     count_receitas |-> count_receitas,
     count_despesas |-> count_despesas]

Estatisticas(total_receitas, total_despesas, count_receitas, count_despesas) ==
    [total_receitas |-> total_receitas,
     total_despesas |-> total_despesas,
     saldo |-> total_receitas - total_despesas,
     percentual_despesas |-> percentual_despesas(total_despesas, total_receitas),
     count_receitas |-> count_receitas,
     count_despesas |-> count_despesas]

obter_estatisticas_gerais(b, data_inicio, data_fim) ==
    LET r == Selecionados(b.db["receitas"], data_inicio, data_fim)
        d == Selecionados(b.db["despesas"], data_inicio, data_fim)
    IN  {Estatisticas(TotalOuZero(sr), TotalOuZero(sd),
                      Cardinality(r), Cardinality(d)) :
            sr \in Somas(b.db["receitas"], r),
            sd \in Somas(b.db["despesas"], d)}

chamar_obter_estatisticas_gerais(data_inicio, data_fim) ==
    /\ last = Ocioso
    /\ UNCHANGED <<csv, abertas>>
    /\ \E e \in obter_estatisticas_gerais(Banco, data_inicio, data_fim) :
         last' = Chamada("obter_estatisticas_gerais", "",
                         <<data_inicio, data_fim>>, e)
    /\ UNCHANGED <<db, sqlite_sequence, emitidos, excluidos>>

\* GROUP BY categoria: the rows of one group
Grupo(tab, ids, c) == {i \in ids : tab[i].categoria = c}

\* ORDER BY total DESC over the groups S: every order in which the totals
\* (total maps a category to a number) never increase
OrdensTotalDesc(S, total) ==
    {s \in Permutacoes(S) :
        \A i, j \in 1..Cardinality(S) : i < j => total[s[i]] >= total[s[j]]}

FramePorCategoria(tab, ids, total, s) ==
    [k \in 1..Len(s) |->
        [categoria |-> s[k], total |-> total[s[k]],
         quantidade |-> Cardinality(Grupo(tab, ids, s[k]))]]

\* SELECT categoria, SUM(valor) as total, COUNT(*) as quantidade FROM t
\* WHERE ... GROUP BY categoria ORDER BY total DESC
SelectPorCategoria(b, t, data_inicio, data_fim) ==
    LET tab == b.db[t]
        ids == Selecionados(tab, data_inicio, data_fim)
        cats == {tab[i].categoria : i \in ids}
        valores == UNION {{x[1] : x \in Somas(tab, Grupo(tab, ids, c))} :
                             c \in cats}
        totais == {f \in [cats -> valores] :
                     \A c \in cats : Some(f[c]) \in Somas(tab, Grupo(tab, ids, c))}
    IN  UNION {{FramePorCategoria(tab, ids, f, s) :
                   s \in OrdensTotalDesc(cats, f)} : f \in totais}

obter_despesas_por_categoria(b, data_inicio, data_fim) ==
    SelectPorCategoria(b, "despesas", data_inicio, data_fim)

obter_receitas_por_categoria(b, data_inicio, data_fim) ==
    SelectPorCategoria(b, "receitas", data_inicio, data_fim)

chamar_obter_despesas_por_categoria(data_inicio, data_fim) ==
    /\ last = Ocioso
    /\ UNCHANGED <<csv, abertas>>
    /\ \E df \in obter_despesas_por_categoria(Banco, data_inicio, data_fim) :
         last' = Chamada("por_categoria", "despesas",
                         <<data_inicio, data_fim>>, df)
    /\ UNCHANGED <<db, sqlite_sequence, emitidos, excluidos>>

chamar_obter_receitas_por_categoria(data_inicio, data_fim) ==
    /\ last = Ocioso
    /\ UNCHANGED <<csv, abertas>>
    /\ \E df \in obter_receitas_por_categoria(Banco, data_inicio, data_fim) :
         last' = Chamada("por_categoria", "receitas",
                         <<data_inicio, data_fim>>, df)
    /\ UNCHANGED <<db, sqlite_sequence, emitidos, excluidos>>

----------------------------------------------------------------------------
\* excluir: DELETE ... WHERE id = ?; a statement that matches no row is not
\* an error, so the method returns True either way.

Excluir(t, id) ==
    /\ last = Ocioso
    /\ UNCHANGED <<csv, abertas>>
    /\ Grava(delete_where_id(Banco, t, id))
    /\ excluidos' = [excluidos EXCEPT
                       ![t] = IF id \in DOMAIN db[t] THEN @ \cup {id} ELSE @]
    /\ last' = Chamada("excluir", t, <<id>>, TRUE)

excluir_receita(receita_id) == Excluir("receitas", receita_id)

excluir_despesa(despesa_id) == Excluir("despesas", despesa_id)

excluir_meta(meta_id) == Excluir("metas", meta_id)

----------------------------------------------------------------------------
\* atualizar: UPDATE ... SET every column WHERE id = ?

\* an UPDATE without its WHERE clause
update_sem_where(b, t, id, row) ==
    [b EXCEPT !.db[t] = [i \in DOMAIN @ |-> row]]

update_where_id(b, t, id, row) ==
    [b EXCEPT !.db[t] = [i \in DOMAIN @ |-> IF i = id THEN row ELSE @[i]]]

Atualizar(t, id, data, descricao, valor, categoria) ==
    /\ last = Ocioso
    /\ UNCHANGED <<csv, abertas>>
    /\ Grava(update_where_id(Banco, t, id,
                LinhaTransacao(data, descricao, valor, categoria)))
    /\ last' = Chamada("atualizar", t,
                       <<id, data, descricao, valor, categoria>>, TRUE)
    /\ UNCHANGED excluidos

atualizar_receita(receita_id, data, descricao, valor, categoria) ==
    Atualizar("receitas", receita_id, data, descricao, valor, categoria)

atualizar_despesa(despesa_id, data, descricao, valor, categoria) ==
    Atualizar("despesas", despesa_id, data, descricao, valor, categoria)

\* the status column is written only when the status argument is truthy
StatusGravado(antigo, status) == IF Truthy(status) THEN status[1] ELSE antigo

LinhaMetaAtualizada(antiga, data_limite, descricao, valor_meta, categoria, status) ==
    [data_limite |-> adapt_date(data_limite), descricao |-> descricao,
     valor_meta |-> valor_meta, categoria |-> categoria,
     status |-> StatusGravado(antiga.status, status)]

atualizar_meta(meta_id, data_limite, descricao, valor_meta, categoria, status) ==
    /\ last = Ocioso
    /\ UNCHANGED <<csv, abertas>>
    /\ Grava([Banco EXCEPT !.db["metas"] =
                [i \in DOMAIN @ |->
                    IF i = meta_id
                    THEN LinhaMetaAtualizada(@[i], data_limite, descricao,
                                             valor_meta, categoria, status)
                    ELSE @[i]]])
    /\ last' = Chamada("atualizar", "metas",
                       <<meta_id, data_limite, descricao, valor_meta, categoria,
                         status>>, TRUE)
    /\ UNCHANGED excluidos

----------------------------------------------------------------------------
\* limpar_dados, exportar_dados, importar_dados

limpar_dados ==
    /\ last = Ocioso
    /\ UNCHANGED <<csv, abertas>>
    /\ Grava(delete_all(Banco))
    /\ last' = Chamada("limpar_dados", "", <<>>, TRUE)
    /\ UNCHANGED excluidos

exportar_dados(b) ==
    {[receitas |-> r, despesas |-> d, metas |-> m] :
        r \in obter_receitas(b, None, None, None),
        d \in obter_despesas(b, None, None, None),
        m \in obter_metas(b, None, None)}

\* for _, row in frame.iterrows(): adicionar_*(row[...].date(), ...)
RECURSIVE ImportaTransacoes(_, _, _)
ImportaTransacoes(b, t, frame) ==
    IF frame = <<>> THEN b
    ELSE ImportaTransacoes(
            execute_insert(b, t,
                LinhaTransacao(Head(frame).data, Head(frame).descricao,
                               Head(frame).valor, Head(frame).categoria)),
            t, Tail(frame))

RECURSIVE ImportaMetas(_, _)
ImportaMetas(b, frame) ==
    IF frame = <<>> THEN b
    ELSE ImportaMetas(
            execute_insert(b, "metas",
                LinhaMeta(Head(frame).data_limite, Head(frame).descricao,
                          Head(frame).valor_meta, Head(frame).categoria)),
            Tail(frame))

\* dados maps each key that is present to a frame; an absent key and an
\* empty frame are both skipped
FrameDe(dados, t) == IF t \in DOMAIN dados THEN dados[t] ELSE <<>>

Importado(b, dados) ==
    ImportaMetas(
        ImportaTransacoes(
            ImportaTransacoes(delete_all(b), "receitas",
                              FrameDe(dados, "receitas")),
            "despesas", FrameDe(dados, "despesas")),
        FrameDe(dados, "metas"))

LinhasDe(dados) ==
    Len(FrameDe(dados, "receitas")) + Len(FrameDe(dados, "despesas"))
      + Len(FrameDe(dados, "metas"))

importar_dados(dados) ==
    /\ last = Ocioso
    /\ UNCHANGED <<csv, abertas>>
    /\ TotalIds(Banco) + LinhasDe(dados) <= MaxIds
    /\ LET r == Importado(Banco, dados) IN
       /\ Grava([db |-> r.db, seq |-> r.seq, emitidos |-> r.emitidos])
       /\ last' = Chamada("importar_dados", "", <<dados>>, TRUE)
    /\ UNCHANGED excluidos

\* Frames handed to importar_dados: one-row frames built from the inputs,
\* and whatever exportar_dados returns in the current state.
FramesTransacao ==
    {<<>>} \cup {<<[id |-> 1, data |-> e.data, descricao |-> e.descricao,
                    valor |-> e.valor, categoria |-> e.categoria]>> :
                    e \in Entradas}

FramesMeta ==
    {<<>>} \cup {<<[id |-> 1, data_limite |-> e.data, descricao |-> e.descricao,
                    valor_meta |-> e.valor, categoria |-> e.categoria,
                    status |-> st]>> :
                    e \in Entradas, st \in {"ativa", "concluida"}}

DadosFixos ==
    {d \in [receitas : FramesTransacao, despesas : FramesTransacao,
            metas : FramesMeta] : LinhasDe(d) <= 1}

Restrito(f, S) == [k \in S |-> f[k]]

DadosExportados ==
    {Restrito(d, S) : d \in exportar_dados(Banco), S \in SUBSET Tabelas}

\* what a caller may pass to importar_dados (a caller exists between calls)
DadosDeEntrada ==
    IF last = Ocioso THEN DadosFixos \cup DadosExportados ELSE {}

Ids == 1..MaxIds

\* The caller takes the value the call returned and goes on to its next call:
\* calls are made one after the other, each running to completion.  In the
\* application it is the user turning from the page to the next interaction.
retornar ==
    /\ last # Ocioso
    /\ last' = Ocioso
    /\ abertas' = 0
    /\ UNCHANGED <<db, sqlite_sequence, emitidos, excluidos, csv>>

Next ==
    \/ \E e \in Entradas :
         adicionar_receita(e.data, e.descricao, e.valor, e.categoria)
    \/ \E e \in Entradas :
         adicionar_despesa(e.data, e.descricao, e.valor, e.categoria)
    \/ \E e \in Entradas :
         adicionar_meta(e.data, e.descricao, e.valor, e.categoria)
    \/ \E di \in OptDatas, df \in OptDatas, c \in OptCategorias :
         chamar_obter_receitas(di, df, c)
    \/ \E di \in OptDatas, df \in OptDatas, c \in OptCategorias :
         chamar_obter_despesas(di, df, c)
    \/ \E st \in OptStatus, c \in OptCategorias :
         chamar_obter_metas(st, c)
    \/ \E di \in OptDatas, df \in OptDatas :
         chamar_obter_estatisticas_gerais(di, df)
    \/ \E di \in OptDatas, df \in OptDatas :
         chamar_obter_despesas_por_categoria(di, df)
    \/ \E di \in OptDatas, df \in OptDatas :
         chamar_obter_receitas_por_categoria(di, df)
    \/ \E i \in Ids : excluir_receita(i)
    \/ \E i \in Ids : excluir_despesa(i)
    \/ \E i \in Ids : excluir_meta(i)
    \/ \E i \in Ids, e \in Entradas :
         atualizar_receita(i, e.data, e.descricao, e.valor, e.categoria)
    \/ \E i \in Ids, e \in Entradas :
         atualizar_despesa(i, e.data, e.descricao, e.valor, e.categoria)
    \/ \E i \in Ids, e \in Entradas, st \in StatusArgs :
         atualizar_meta(i, e.data, e.descricao, e.valor, e.categoria, st)
    \/ limpar_dados
    \/ \E dados \in DadosDeEntrada : importar_dados(dados)
    \/ retornar

Spec == Init /\ [][Next]_vars

----------------------------------------------------------------------------
\* Storage failures.  A statement fails when sqlite3.connect, cursor.execute
\* or conn.commit raises: the statement then changes nothing, and the
\* statements the call ran before it, each committed on its own connection,
\* stay applied.  _execute_query / _execute_insert log the exception and
\* re-raise it; adicionar_* lets it through, every other mutating method
\* catches it, logs it and returns False.  Such a call is recorded with
\* op "falha", the method and the number of the failing statement as its
\* arguments, and "raise" or "False" as what the caller gets.

Instrucao(sql, t, row) == [sql |-> sql, t |-> t, row |-> row]

\* the three statements of limpar_dados, in the order the method runs them
InstrucoesLimpar ==
    <<Instrucao("DELETE", "receitas", <<>>),
      Instrucao("DELETE", "despesas", <<>>),
      Instrucao("DELETE", "metas", <<>>)>>

InsertsTransacao(t, frame) ==
    [k \in 1..Len(frame) |->
        Instrucao("INSERT", t,
            LinhaTransacao(frame[k].data, frame[k].descricao,
                           frame[k].valor, frame[k].categoria))]

InsertsMeta(frame) ==
    [k \in 1..Len(frame) |->
        Instrucao("INSERT", "metas",
            LinhaMeta(frame[k].data_limite, frame[k].descricao,
                      frame[k].valor_meta, frame[k].categoria))]

\* the statements of importar_dados(dados), in the order the method runs them
InstrucoesImportar(dados) ==
    InstrucoesLimpar
      \o InsertsTransacao("receitas", FrameDe(dados, "receitas"))
      \o InsertsTransacao("despesas", FrameDe(dados, "despesas"))
      \o InsertsMeta(FrameDe(dados, "metas"))

Executa(b, i) ==
    IF i.sql = "DELETE"
    THEN [db |-> [b.db EXCEPT ![i.t] = SemLinhas], seq |-> b.seq,
          emitidos |-> b.emitidos]
    ELSE LET r == execute_insert(b, i.t, i.row) IN
         [db |-> r.db, seq |-> r.seq, emitidos |-> r.emitidos]

\* the first n statements, each committed
RECURSIVE ExecutaAte(_, _, _)
ExecutaAte(b, instrucoes, n) ==
    IF n = 0 THEN b
    ELSE Executa(ExecutaAte(b, instrucoes, n - 1), instrucoes[n])

Falha(metodo, t, passo, ret) == Chamada("falha", t, <<metodo, passo>>, ret)

\* _execute_query / _execute_insert call conn.close() on the normal path
\* only.  When sqlite3.connect raises there is no connection; when execute or
\* commit raises, the connection stays open until the garbage collector
\* finalises it, which may be before or after the caller is back in control.
ConexoesDeixadas == {0, 1}

falha_adicionar(t, data, descricao, valor, categoria) ==
    /\ last = Ocioso
    /\ UNCHANGED csv
    /\ abertas' \in ConexoesDeixadas
    /\ last' = Falha("adicionar", t, 1, "raise")
    /\ UNCHANGED <<db, sqlite_sequence, emitidos, excluidos>>

falha_excluir(t, id) ==
    /\ last = Ocioso
    /\ UNCHANGED csv
    /\ abertas' \in ConexoesDeixadas
    /\ last' = Falha("excluir", t, 1, "False")
    /\ UNCHANGED <<db, sqlite_sequence, emitidos, excluidos>>

falha_atualizar(t, id, data, descricao, valor, categoria, status) ==
    /\ last = Ocioso
    /\ UNCHANGED csv
    /\ abertas' \in ConexoesDeixadas
    /\ last' = Falha("atualizar", t, 1, "False")
    /\ UNCHANGED <<db, sqlite_sequence, emitidos, excluidos>>

falha_limpar_dados(passo) ==
    /\ last = Ocioso
    /\ UNCHANGED csv
    /\ abertas' \in ConexoesDeixadas
    /\ Grava(ExecutaAte(Banco, InstrucoesLimpar, passo - 1))
    /\ last' = Falha("limpar_dados", "", passo, "False")
    /\ UNCHANGED excluidos

falha_importar_dados(dados, passo) ==
    /\ last = Ocioso
    /\ UNCHANGED csv
    /\ abertas' \in ConexoesDeixadas
    /\ TotalIds(Banco) + LinhasDe(dados) <= MaxIds
    /\ Grava(ExecutaAte(Banco, InstrucoesImportar(dados), passo - 1))
    /\ last' = Falha("importar_dados", "", passo, "False")
    /\ UNCHANGED excluidos

NextFalhas ==
    \/ Next
    \/ \E t \in Tabelas, e \in Entradas :
         falha_adicionar(t, e.data, e.descricao, e.valor, e.categoria)
    \/ \E t \in Tabelas, i \in Ids : falha_excluir(t, i)
    \/ \E t \in Tabelas, i \in Ids, e \in Entradas, st \in StatusArgs :
         falha_atualizar(t, i, e.data, e.descricao, e.valor, e.categoria, st)
    \/ \E passo \in 1..Len(InstrucoesLimpar) : falha_limpar_dados(passo)
    \/ \E dados \in DadosDeEntrada :
         \E passo \in 1..Len(InstrucoesImportar(dados)) :
            falha_importar_dados(dados, passo)

SpecFalhas == Init /\ [][NextFalhas]_vars

----------------------------------------------------------------------------
\* The Streamlit application (src/app.py).  Every run loads the three CSV
\* files into DataFrames (carregar_dados); a handler changes a DataFrame and
\* writes it back (salvar_dados) before the script is run again.  A session
\* runs the script once per interaction, one run after the other; last keeps
\* what the run put on the page until the user turns to the next interaction.

\* Bound: number of rows the three CSV files hold together.
MaxLinhas == 3

\* what the forms deliver: st.date_input a date, st.text_input a text that
\* may be empty, st.number_input(min_value=0.01) an amount above zero,
\* st.selectbox an entry of the page's category menu
AppDescricoes == {"x", ""}
AppValores == {1, 3}
AppCategorias == {"Outros"}

\* pd.read_csv and df['data'] = pd.to_datetime(df['data']); an absent or
\* empty file gives the empty DataFrame.  Row k of a frame has index k - 1.
carregar_dados(arquivos, arquivo) ==
    [k \in 1..Len(arquivos[arquivo]) |->
        [data |-> to_datetime(arquivos[arquivo][k].data),
         descricao |-> arquivos[arquivo][k].descricao,
         valor |-> arquivos[arquivo][k].valor,
         categoria |-> arquivos[arquivo][k].categoria]]

\* df.to_csv(caminho, index=False): the date column is written as text
salvar_dados(df) ==
    [k \in 1..Len(df) |->
        [data |-> adapt_date(df[k].data), descricao |-> df[k].descricao,
         valor |-> df[k].valor, categoria |-> df[k].categoria]]

\* pd.concat([df, novo_registro], ignore_index=True)
adicionar_registro(df, data, descricao, valor, categoria) ==
    Append(df, [data |-> data, descricao |-> descricao, valor |-> valor,
                categoria |-> categoria])

\* df.drop(indice)
drop(df, indice) ==
    [k \in 1..(Len(df) - 1) |-> IF k <= indice THEN df[k] ELSE df[k + 1]]

TotalLinhas ==
    Len(csv["receitas"]) + Len(csv["despesas"]) + Len(csv["metas"])

\* the three "Adicionar" buttons: the record is appended and saved only when
\* the description is not empty
app_adicionar(arquivo, data, descricao, valor, categoria) ==
    /\ last = Ocioso
    /\ TotalLinhas < MaxLinhas
    /\ IF descricao # ""
       THEN /\ csv' = [csv EXCEPT ![arquivo] =
                         salvar_dados(adicionar_registro(
                            carregar_dados(csv, arquivo),
                            data, descricao, valor, categoria))]
            /\ last' = Chamada("app_adicionar", arquivo,
                               <<data, descricao, valor, categoria>>, "success")
       ELSE /\ csv' = csv
            /\ last' = Chamada("app_adicionar", arquivo,
                               <<data, descricao, valor, categoria>>, "error")
    /\ UNCHANGED <<db, sqlite_sequence, emitidos, excluidos, abertas>>

\* df['data'] <= data_meta on two datetime64 values
TimestampMenorIgual(a, b) ==
    \/ a[1] < b[1]
    \/ a[1] = b[1] /\ a[2] < b[2]
    \/ a[1] = b[1] /\ a[2] = b[2] /\ a[3] <= b[3]

\* receitas_filtradas['data'].dt.date >= data_inicio, <= data_fim
DataDentro(data, data_inicio, data_fim) ==
    /\ TimestampMenorIgual(data_inicio, data)
    /\ TimestampMenorIgual(data, data_fim)

\* the filtered view numbered anew from 0, as reset_index(drop=True) gives
filtradas_reindexadas(df, categoria_filtro, data_inicio, data_fim) ==
    LET visiveis == {i \in 0..(Len(df) - 1) :
                       /\ categoria_filtro # "Todas"
                             => df[i + 1].categoria = categoria_filtro
                       /\ DataDentro(df[i + 1].data, data_inicio, data_fim)}
        rotulo(k) == CHOOSE i \in visiveis :
                        Cardinality({j \in visiveis : j < i}) = k
    IN  [k \in 0..(Cardinality(visiveis) - 1) |-> df[rotulo(k) + 1]]

\* the filtered view of the income and expense pages: the rows of df of the
\* chosen category (of any with "Todas") and with a date within the two
\* bounds, each under the index label it has in df
filtradas(df, categoria_filtro, data_inicio, data_fim) ==
    LET visiveis == {i \in 0..(Len(df) - 1) :
                       /\ categoria_filtro # "Todas"
                             => df[i + 1].categoria = categoria_filtro
                       /\ DataDentro(df[i + 1].data, data_inicio, data_fim)}
    IN  [i \in visiveis |-> df[i + 1]]

\* the "Excluir" button of the income and of the expense page: the index is
\* selected among those of the filtered view, the row with that label is
\* dropped from the whole DataFrame, which is saved.  The call record keeps
\* the row the selectbox showed for the index.
app_excluir(arquivo, indice, categoria_filtro, data_inicio, data_fim) ==
    LET df == carregar_dados(csv, arquivo)
        visao == filtradas(df, categoria_filtro, data_inicio, data_fim)
    IN  /\ last = Ocioso
        /\ arquivo \in {"receitas", "despesas"}
        /\ categoria_filtro \in
              {"Todas"} \cup {df[k].categoria : k \in DOMAIN df}
        /\ indice \in DOMAIN visao
        /\ csv' = [csv EXCEPT ![arquivo] = salvar_dados(drop(df, indice))]
        /\ last' = Chamada("app_excluir", arquivo,
                       <<indice, categoria_filtro, data_inicio, data_fim>>,
                       visao[indice])
        /\ UNCHANGED <<db, sqlite_sequence, emitidos, excluidos, abertas>>

\* df[df['data'] <= data_meta]['valor'].sum() if not df.empty else 0
RECURSIVE soma_ate_meta(_, _)
soma_ate_meta(df, data_meta) ==
    IF df = <<>> THEN 0
    ELSE (IF TimestampMenorIgual(Head(df).data, data_meta)
          THEN Head(df).valor ELSE 0)
         + soma_ate_meta(Tail(df), data_meta)

\* the progress with max(..., 0) around it
progresso_com_piso(economias, valor) ==
    IF valor > 0
    THEN IF economias * 100 >= 100 * valor THEN Razao(100, 1)
         ELSE IF economias < 0 THEN Razao(0, 1)
         ELSE Razao(economias * 100, valor)
    ELSE Razao(0, 1)

\* the progress without min(..., 100) around it
progresso_sem_teto(economias, valor) ==
    IF valor > 0 THEN Razao(economias * 100, valor) ELSE Razao(0, 1)

\* min((economias / meta['valor']) * 100, 100) if meta['valor'] > 0 else 0
progresso(economias, valor) ==
    IF valor > 0
    THEN IF economias * 100 >= 100 * valor THEN Razao(100, 1)
         ELSE Razao(economias * 100, valor)
    ELSE Razao(0, 1)

\* the loop over metas_com_progresso.iterrows()
metas_com_progresso(receitas_df, despesas_df, metas_df) ==
    [k \in 1..Len(metas_df) |->
        LET economias == soma_ate_meta(receitas_df, metas_df[k].data)
                           - soma_ate_meta(despesas_df, metas_df[k].data)
        IN  [data |-> metas_df[k].data, descricao |-> metas_df[k].descricao,
             valor |-> metas_df[k].valor, categoria |-> metas_df[k].categoria,
             progresso |-> progresso(economias, metas_df[k].valor),
             economias |-> economias]]

\* the "Excluir" button of the goal page: the index is selected among
\* those of metas_com_progresso, which has every goal
app_excluir_meta(indice) ==
    LET metas_df == carregar_dados(csv, "metas")
        visao == metas_com_progresso(carregar_dados(csv, "receitas"),
                                     carregar_dados(csv, "despesas"), metas_df)
    IN  /\ last = Ocioso
        /\ indice \in 0..(Len(visao) - 1)
        /\ csv' = [csv EXCEPT !["metas"] = salvar_dados(drop(metas_df, indice))]
        /\ last' = Chamada("app_excluir", "metas", <<indice>>,
                           visao[indice + 1])
        /\ UNCHANGED <<db, sqlite_sequence, emitidos, excluidos, abertas>>

\* a run of the script with the "Metas" page selected
pagina_metas ==
    /\ last = Ocioso
    /\ last' = Chamada("metas_com_progresso", "metas", <<>>,
                  metas_com_progresso(carregar_dados(csv, "receitas"),
                                      carregar_dados(csv, "despesas"),
                                      carregar_dados(csv, "metas")))
    /\ UNCHANGED <<db, sqlite_sequence, emitidos, excluidos, csv, abertas>>

\* sheets_sync.py import: each worksheet with the expected header row
\* replaces its CSV file with the rows the spreadsheet holds, whatever they
\* are; a worksheet without it is skipped.  A worksheet is a sequence of
\* rows below the header, or None when the header is not the expected one.
\* The rows tried are those no form of the application delivers: an amount
\* of zero and one below zero, under a category of no menu.
LinhasDaPlanilha ==
    {[data |-> adapt_date(<<2024, 2, 1>>), descricao |-> "x", valor |-> v,
      categoria |-> "Planilha"] : v \in {0, -1}}

Abas == {None} \cup {Some(<<l>>) : l \in LinhasDaPlanilha}

import_from_sheets(planilha) ==
    /\ last = Ocioso
    /\ csv' = [a \in Arquivos |->
                 IF planilha[a] = None THEN csv[a] ELSE planilha[a][1]]
    /\ Len(csv'["receitas"]) + Len(csv'["despesas"]) + Len(csv'["metas"])
          <= MaxLinhas
    /\ last' = Chamada("import_from_sheets", "", <<>>, <<>>)
    /\ UNCHANGED <<db, sqlite_sequence, emitidos, excluidos, abertas>>

\* The settings page.  st.button is True only in the run its click starts,
\* and a widget that was not on the page in the run before starts from its
\* default, so st.checkbox is False in that run.  Ticking the checkbox
\* starts another run, in which st.button is False.
limpar_todos_os_dados(botao, confirmar) ==
    /\ csv' = IF botao /\ confirmar THEN [a \in Arquivos |-> salvar_dados(<<>>)]
              ELSE csv
    /\ last' = Chamada("limpar_todos_os_dados", "", <<botao, confirmar>>,
                       IF botao /\ confirmar THEN "success" ELSE "")
    /\ UNCHANGED <<db, sqlite_sequence, emitidos, excluidos, abertas>>

\* the user clicks "Limpar Todos os Dados"
pressionar_limpar ==
    /\ last = Ocioso
    /\ limpar_todos_os_dados(TRUE, FALSE)

\* the checkbox is on the page after the run the click started
ConfirmacaoNaTela ==
    /\ last.op = "limpar_todos_os_dados"
    /\ last.args[1]

\* the user ticks "Confirmar limpeza de todos os dados"
marcar_confirmacao ==
    /\ ConfirmacaoNaTela
    /\ limpar_todos_os_dados(FALSE, TRUE)

\* The dashboard's chart of the last six months.


Bissexto(ano) ==
    (ano % 4 = 0 /\ ano % 100 # 0) \/ ano % 400 = 0

DiasNoMes(ano, mes) ==
    IF mes = 2 THEN (IF Bissexto(ano) THEN 29 ELSE 28)
    ELSE IF mes \in {4, 6, 9, 11} THEN 30 ELSE 31

\* what datetime.now() is tried with: a leap day, the 29th of August of a
\* leap year and of another year, a 31st, and a day every month has
Hoje ==
    {<<2024, 2, 29>>, <<2024, 8, 29>>, <<2025, 8, 29>>, <<2025, 8, 31>>,
     <<2025, 3, 15>>}

\* hoje.replace(year=ano, month=mes) keeps the day of hoje and raises
\* ValueError when the month has no such day
replace(hoje, ano, mes) ==
    IF hoje[3] <= DiasNoMes(ano, mes)
    THEN [raise |-> "", data |-> <<ano, mes, hoje[3]>>]
    ELSE [raise |-> "ValueError", data |-> <<>>]

seis_meses_atras(hoje) ==
    IF hoje[2] > 6 THEN replace(hoje, hoje[1], hoje[2] - 6)
    ELSE replace(hoje, hoje[1] - 1, hoje[2] + 6)

\* a run of the script with the "Dashboard" page selected; the window is
\* computed when a DataFrame of incomes or of expenses has rows
pagina_dashboard(hoje) ==
    /\ last = Ocioso
    /\ last' = Chamada("dashboard", "", <<hoje>>,
                  IF csv["receitas"] # <<>> \/ csv["despesas"] # <<>>
                  THEN Some(seis_meses_atras(hoje)) ELSE None)
    /\ UNCHANGED <<db, sqlite_sequence, emitidos, excluidos, csv, abertas>>

NextApp ==
    \/ \E planilha \in [Arquivos -> Abas] : import_from_sheets(planilha)
    \/ \E a \in Arquivos, d \in Datas, desc \in AppDescricoes,
          v \in AppValores, c \in AppCategorias :
         app_adicionar(a, d, desc, v, c)
    \/ \E a \in Arquivos, i \in 0..(MaxLinhas - 1),
          c \in {"Todas", "Planilha"} \cup AppCategorias,
          di \in Datas, df \in Datas :
         app_excluir(a, i, c, di, df)
    \/ \E i \in 0..(MaxLinhas - 1) : app_excluir_meta(i)
    \/ pagina_metas
    \/ pressionar_limpar
    \/ marcar_confirmacao
    \/ \E hoje \in Hoje : pagina_dashboard(hoje)
    \/ retornar

SpecApp == Init /\ [][NextApp]_vars

----------------------------------------------------------------------------
\* Vocabulary of the properties

\* calendar order of two dates
DataMenorIgual(a, b) ==
    \/ a[1] < b[1]
    \/ a[1] = b[1] /\ a[2] < b[2]
    \/ a[1] = b[1] /\ a[2] = b[2] /\ a[3] <= b[3]

IdsDe(frame) == {frame[k].id : k \in DOMAIN frame}

Elementos(s) == {s[k] : k \in DOMAIN s}

\* every DataFrame a list call on table t may return in the current state
Listas(t) ==
    IF t = "metas"
    THEN UNION {obter_metas(Banco, st, c) : st \in OptStatus, c \in OptCategorias}
    ELSE UNION {SelectTransacoes(Banco, t, di, df, c) :
                  di \in OptDatas, df \in OptDatas, c \in OptCategorias}

\* C1: in every table the ids returned by add form a strictly increasing
\* sequence, the id returned by the last add is its last element, and every
\* id stored now or deleted earlier is one of them.
C1_IdsCrescentes ==
    \A t \in Tabelas :
      /\ \A i, j \in DOMAIN emitidos[t] : i < j => emitidos[t][i] < emitidos[t][j]
      /\ DOMAIN db[t] \cup excluidos[t] \subseteq Elementos(emitidos[t])
      /\ (last.op = "adicionar" /\ last.tabela = t) =>
            last.ret = emitidos[t][Len(emitidos[t])]

\* an add that follows the deletion of the only earlier record of its table
C1_Witness ==
    /\ last.op = "adicionar"
    /\ excluidos[last.tabela] = {1}
    /\ DOMAIN db[last.tabela] = {last.ret}

\* the filters of a transaction list call that include the record r
IncluiTransacao(di, df, c, r) ==
    /\ di = None \/ DataMenorIgual(di[1], r[1])
    /\ df = None \/ DataMenorIgual(r[1], df[1])
    /\ c = None \/ c[1] = r[4]

UmaLinhaIgual(frame, id, r) ==
    /\ Cardinality({k \in DOMAIN frame : frame[k].id = id}) = 1
    /\ \A k \in DOMAIN frame :
         frame[k].id = id =>
            /\ frame[k].data = r[1]
            /\ frame[k].descricao = r[2]
            /\ frame[k].valor = r[3]
            /\ frame[k].categoria = r[4]

UmaMetaIgual(frame, id, r) ==
    /\ Cardinality({k \in DOMAIN frame : frame[k].id = id}) = 1
    /\ \A k \in DOMAIN frame :
         frame[k].id = id =>
            /\ frame[k].data_limite = r[1]
            /\ frame[k].descricao = r[2]
            /\ frame[k].valor_meta = r[3]
            /\ frame[k].categoria = r[4]

\* C2: right after add(r), every list call of that kind without filters or
\* with filters that include r's date and category returns exactly one record
\* with the id add returned, equal to r in date, description, amount, category.
C2_LeituraAposEscrita ==
    last.op = "adicionar" =>
      IF last.tabela = "metas"
      THEN \A c \in OptCategorias :
             (c = None \/ c[1] = last.args[4]) =>
                \A f \in obter_metas(Banco, None, c) :
                   UmaMetaIgual(f, last.ret, last.args)
      ELSE \A di \in OptDatas, df \in OptDatas, c \in OptCategorias :
             IncluiTransacao(di, df, c, last.args) =>
                \A f \in SelectTransacoes(Banco, last.tabela, di, df, c) :
                   UmaLinhaIgual(f, last.ret, last.args)

\* an income added on the later date next to an earlier income
C2_Witness ==
    /\ last.op = "adicionar"
    /\ last.tabela = "receitas"
    /\ last.args[1] = <<2024, 10, 5>>
    /\ \E i \in DOMAIN db["receitas"] :
         to_datetime(db["receitas"][i].data) = <<2024, 2, 1>>

\* C3: an id that delete removed from a table is not in that table and is in
\* no result a list call on that table returns, in the state after the delete
\* and in every later state.
C3_ExcluidoNuncaListado ==
    /\ \A t \in Tabelas : DOMAIN db[t] \cap excluidos[t] = {}
    /\ last.op = "excluir" =>
         \A f \in Listas(last.tabela) : last.args[1] \notin IdsDe(f)
    /\ last.op = "obter" => IdsDe(last.ret) \cap excluidos[last.tabela] = {}

\* a list call that returned a record added after another one was deleted
C3_Witness ==
    /\ last.op = "obter"
    /\ excluidos[last.tabela] # {}
    /\ last.ret # <<>>

\* C4 (as claimed): update and delete of an id that is not stored do not
\* report success, and leave the store unchanged.
C4_NaoEncontrado ==
    [][(/\ last'.op \in {"excluir", "atualizar"}
        /\ last'.args[1] \notin DOMAIN db[last'.tabela])
          => (last'.ret # TRUE /\ db' = db)]_vars

Invalido(r) == r[2] = "" \/ r[3] <= 0

\* C5 (as claimed): an add with an empty description or a non-positive amount
\* returns no id and stores nothing.
C5_ValidacaoNoAdd ==
    (last.op = "adicionar" /\ Invalido(last.args)) =>
        (last.ret \notin Elementos(emitidos[last.tabela])
           /\ last.ret \notin DOMAIN db[last.tabela])

\* C6 (as claimed): every stored income and expense has amount > 0 and every
\* stored goal has target_amount > 0.
C6_ValoresPositivos ==
    /\ \A t \in {"receitas", "despesas"} :
          \A i \in DOMAIN db[t] : db[t][i].valor > 0
    /\ \A i \in DOMAIN db["metas"] : db["metas"][i].valor_meta > 0

\* the fields an update call passes, as a list call would show them
CamposGravados(t, row, a) ==
    IF t = "metas"
    THEN /\ to_datetime(row.data_limite) = a[2]
         /\ row.descricao = a[3]
         /\ row.valor_meta = a[4]
         /\ row.categoria = a[5]
    ELSE /\ to_datetime(row.data) = a[2]
         /\ row.descricao = a[3]
         /\ row.valor = a[4]
         /\ row.categoria = a[5]

\* C7 (as claimed): an update of a stored record leaves it holding exactly
\* the fields passed, for a goal the status passed as well, keeps its id and
\* leaves every other record of the table unchanged.
C7_SubstituicaoTotal ==
    [][(/\ last'.op = "atualizar"
        /\ last'.args[1] \in DOMAIN db[last'.tabela])
          => LET t == last'.tabela
                 id == last'.args[1]
             IN  /\ DOMAIN db'[t] = DOMAIN db[t]
                 /\ \A j \in DOMAIN db[t] \ {id} : db'[t][j] = db[t][j]
                 /\ CamposGravados(t, db'[t][id], last'.args)
                 /\ t = "metas" => Some(db'[t][id].status) = last'.args[6]]_vars

\* C7 (amended): as claimed, except that a goal's status is replaced only when
\* a non-empty status is passed; with no status or an empty one the goal
\* keeps the status it had.
C7_SubstituicaoStatusOpcional ==
    [][(/\ last'.op = "atualizar"
        /\ last'.args[1] \in DOMAIN db[last'.tabela])
          => LET t == last'.tabela
                 id == last'.args[1]
             IN  /\ DOMAIN db'[t] = DOMAIN db[t]
                 /\ \A j \in DOMAIN db[t] \ {id} : db'[t][j] = db[t][j]
                 /\ CamposGravados(t, db'[t][id], last'.args)
                 /\ t = "metas" =>
                      db'[t][id].status =
                         IF last'.args[6] \in {None, Some("")}
                         THEN db[t][id].status
                         ELSE last'.args[6][1]]_vars

\* a completed goal, stored next to another, updated without a status
C7_Witness ==
    /\ last.op = "atualizar"
    /\ last.tabela = "metas"
    /\ last.args[6] = None
    /\ Cardinality(DOMAIN db["metas"]) = 2
    /\ last.args[1] \in DOMAIN db["metas"]
    /\ db["metas"][last.args[1]].status = "concluida"

\* the stored transactions a list call is to return, by calendar date; with
\* vazioConta an empty category counts as a category to match
TransacoesEsperadas(t, di, df, c, vazioConta) ==
    {i \in DOMAIN db[t] :
        /\ di = None \/ DataMenorIgual(di[1], to_datetime(db[t][i].data))
        /\ df = None \/ DataMenorIgual(to_datetime(db[t][i].data), df[1])
        /\ \/ c = None
           \/ ~vazioConta /\ c[1] = ""
           \/ db[t][i].categoria = c[1]}

\* the stored goals of the given category (no date bound can be given)
MetasDaCategoria(c) ==
    {i \in DOMAIN db["metas"] : c = None \/ db["metas"][i].categoria = c[1]}

MetasEsperadas(st, c) ==
    {i \in DOMAIN db["metas"] :
        /\ st \in {None, Some("")} \/ db["metas"][i].status = st[1]
        /\ c \in {None, Some("")} \/ db["metas"][i].categoria = c[1]}

\* the frame holds each of the ids once, with the stored fields
LinhasArmazenadas(t, frame, ids) ==
    /\ IdsDe(frame) = ids
    /\ Len(frame) = Cardinality(ids)
    /\ \A k \in DOMAIN frame :
         IF t = "metas"
         THEN FrameMeta(db[t], <<frame[k].id>>) = <<frame[k]>>
         ELSE FrameTransacao(db[t], <<frame[k].id>>) = <<frame[k]>>

\* between calls, a list call with any filters has a result to return
ListaSempreRetorna ==
    last = Ocioso =>
      /\ \A t \in {"receitas", "despesas"} :
           \A di \in OptDatas, df \in OptDatas, c \in OptCategorias :
              SelectTransacoes(Banco, t, di, df, c) # {}
      /\ \A st \in OptStatus, c \in OptCategorias : obter_metas(Banco, st, c) # {}

\* C8 (as claimed): for each kind, list returns exactly the stored records
\* whose date (target date for goals) lies within the given inclusive bounds
\* and whose category equals the given one, each being optional.  A goal list
\* call can pass no date bounds (obter_metas has no such parameter), so for it
\* the claim's filters are the category alone.
C8_ListaFiltrada ==
    /\ ListaSempreRetorna
    /\ last.op = "obter" =>
         IF last.tabela = "metas"
         THEN LinhasArmazenadas("metas", last.ret, MetasDaCategoria(last.args[2]))
         ELSE LinhasArmazenadas(last.tabela, last.ret,
                 TransacoesEsperadas(last.tabela, last.args[1], last.args[2],
                                     last.args[3], TRUE))

\* C8 (amended): an income or expense list returns exactly the stored records
\* whose date lies within the given inclusive bounds and whose category equals
\* the given one, each optional and an empty category counting as not given;
\* a goal list takes no date bounds and returns exactly the stored goals whose
\* status and category equal the given ones, each optional and an empty string
\* counting as not given.  With no match the result is the empty sequence.
C8_ListaFiltradaCorrigida ==
    /\ ListaSempreRetorna
    /\ last.op = "obter" =>
         IF last.tabela = "metas"
         THEN LinhasArmazenadas("metas", last.ret,
                 MetasEsperadas(last.args[1], last.args[2]))
         ELSE LinhasArmazenadas(last.tabela, last.ret,
                 TransacoesEsperadas(last.tabela, last.args[1], last.args[2],
                                     last.args[3], FALSE))

\* a list call with a lower date bound that returned one of two stored incomes
C8_Witness ==
    /\ last.op = "obter"
    /\ last.tabela = "receitas"
    /\ last.args[1] # None
    /\ Cardinality(DOMAIN db["receitas"]) = 2
    /\ Len(last.ret) = 1

C10_LimparDados ==
    /\ last.op = "limpar_dados" =>
         /\ last.ret = TRUE
         /\ \A t \in Tabelas : DOMAIN db[t] = {} /\ Listas(t) = {<<>>}
    /\ \A t \in Tabelas : DOMAIN delete_all(Banco).db[t] = {}
    /\ delete_all(delete_all(Banco)) = delete_all(Banco)

\* a clear of a store that has held records
C10_Witness ==
    /\ last.op = "limpar_dados"
    /\ TotalIds(Banco) >= 1

\* the sum of the amounts of the rows ids of table t
RECURSIVE SomaValores(_, _)
SomaValores(t, ids) ==
    IF ids = {} THEN 0
    ELSE LET i == CHOOSE x \in ids : TRUE IN
         db[t][i].valor + SomaValores(t, ids \ {i})

\* C15 (as claimed): a stored goal's status changes only in an update call
\* that supplies a status, and importing what exportar_dados returned leaves
\* every goal with the status it was exported with.
C15_StatusSoPorAtualizacao ==
    [][/\ \A i \in DOMAIN db["metas"] \cap DOMAIN db'["metas"] :
            db'["metas"][i].status # db["metas"][i].status =>
               /\ last'.op = "atualizar"
               /\ last'.tabela = "metas"
               /\ last'.args[1] = i
               /\ last'.args[6] # None
       /\ (last'.op = "importar_dados" /\ last'.args[1] \in exportar_dados(Banco)) =>
            LET f == last'.args[1].metas
                n == Len(emitidos["metas"])
            IN  \A k \in DOMAIN f :
                   db'["metas"][emitidos'["metas"][n + k]].status = f[k].status]_vars

\* C16 (as claimed): the expense ratio is 0 when the income total is 0 and
\* expense total / income total * 100 for every other income total.
C16_PercentualDespesas ==
    last.op = "obter_estatisticas_gerais" =>
       last.ret.percentual_despesas =
          IF last.ret.total_receitas = 0 THEN Razao(0, 1)
          ELSE Razao(last.ret.total_despesas * 100, last.ret.total_receitas)

\* C17: the income and expense totals of obter_estatisticas_gerais are the sums
\* of the amounts of the stored records the date bounds select, whatever the
\* order in which the records are met, and 0 when no record is selected.
C17_TotalSomaDosValores ==
    /\ last = Ocioso =>
         \A di \in OptDatas, df \in OptDatas :
            Cardinality(obter_estatisticas_gerais(Banco, di, df)) = 1
    /\ last.op = "obter_estatisticas_gerais" =>
         /\ last.ret.total_receitas =
               SomaValores("receitas",
                  TransacoesEsperadas("receitas", last.args[1], last.args[2],
                                      None, TRUE))
         /\ last.ret.total_despesas =
               SomaValores("despesas",
                  TransacoesEsperadas("despesas", last.args[1], last.args[2],
                                      None, TRUE))

\* totals over two stored incomes and over no expense at all
C17_Witness ==
    /\ last.op = "obter_estatisticas_gerais"
    /\ Cardinality(DOMAIN db["receitas"]) = 2
    /\ last.ret.count_receitas = 2
    /\ last.ret.total_receitas = 3
    /\ last.ret.total_despesas = 0

RECURSIVE SomaColuna(_, _)
SomaColuna(frame, coluna) ==
    IF frame = <<>> THEN 0
    ELSE Head(frame)[coluna] + SomaColuna(Tail(frame), coluna)

\* C18: a per-category result has one bucket for each category among the
\* records the date bounds select, the bucket counts add up to the number of
\* those records and the bucket totals to the sum of their amounts.
C18_PorCategoria ==
    last.op = "por_categoria" =>
       LET t == last.tabela
           f == last.ret
           sel == TransacoesEsperadas(t, last.args[1], last.args[2], None, TRUE)
           cats == {db[t][i].categoria : i \in sel}
       IN  /\ {f[k].categoria : k \in DOMAIN f} = cats
           /\ Len(f) = Cardinality(cats)
           /\ SomaColuna(f, "quantidade") = Cardinality(sel)
           /\ SomaColuna(f, "total") = SomaValores(t, sel)

\* a per-category call with both date bounds that returned two buckets
C18_Witness ==
    /\ last.op = "por_categoria"
    /\ last.args[1] # None
    /\ last.args[2] # None
    /\ Len(last.ret) = 2

\* category names in ascending order
OrdemCategorias == <<"", "A", "B">>

CategoriaMenor(a, b) ==
    \E i, j \in DOMAIN OrdemCategorias :
        i < j /\ OrdemCategorias[i] = a /\ OrdemCategorias[j] = b

\* C19 (as claimed): the buckets of a per-category result are in descending
\* order of total, and buckets with equal totals in ascending category order.
C19_OrdemDosGrupos ==
    last.op = "por_categoria" =>
       LET f == last.ret IN
       \A k, l \in DOMAIN f :
          k < l => \/ f[k].total > f[l].total
                   \/ /\ f[k].total = f[l].total
                      /\ CategoriaMenor(f[k].categoria, f[l].categoria)

\* C20: an add, update or delete on one table leaves the other two tables
\* as they were, and a delete leaves its own table as it was but for the row
\* with the given id.
C20_SemCascata ==
    [][last'.op \in {"adicionar", "atualizar", "excluir"} =>
          LET t == last'.tabela IN
          /\ \A u \in Tabelas \ {t} : db'[u] = db[u]
          /\ last'.op = "excluir" =>
                db'[t] = SemLinha(db[t], last'.args[1])]_vars

\* an income deleted while a goal with the same id is stored
C20_Witness ==
    /\ last.op = "excluir"
    /\ last.tabela = "receitas"
    /\ last.args[1] \in excluidos["receitas"]
    /\ last.args[1] \in DOMAIN db["metas"]

\* C11 (as claimed): a mutating call during which the storage fails leaves
\* the tables as they were before the call.
C11_FalhaSemEfeito ==
    [][last'.op = "falha" => db' = db]_vars

\* C12 (as claimed): a mutating call during which the storage fails raises
\* the error to its caller, and does not return False.
C12_FalhaPropagada ==
    last.op = "falha" => last.ret = "raise"

\* importar_dados and limpar_dados without a failure are their statements
\* run to the end
InstrucoesCompletas ==
    last = Ocioso =>
      /\ ExecutaAte(Banco, InstrucoesLimpar, 3) = delete_all(Banco)
      /\ \A dados \in DadosDeEntrada :
           LET r == Importado(Banco, dados)
               n == Len(InstrucoesImportar(dados))
           IN  ExecutaAte(Banco, InstrucoesImportar(dados), n)
                 = [db |-> r.db, seq |-> r.seq, emitidos |-> r.emitidos]

\* the amounts of the rows of a CSV file dated on or before the date d
RECURSIVE SomaCsvAte(_, _, _)
SomaCsvAte(linhas, ks, d) ==
    IF ks = {} THEN 0
    ELSE LET k == CHOOSE x \in ks : TRUE IN
         (IF DataMenorIgual(to_datetime(linhas[k].data), d)
          THEN linhas[k].valor ELSE 0)
         + SomaCsvAte(linhas, ks \ {k}, d)

PoupadoAte(arquivos, d) ==
    SomaCsvAte(arquivos["receitas"], DOMAIN arquivos["receitas"], d)
      - SomaCsvAte(arquivos["despesas"], DOMAIN arquivos["despesas"], d)

\* the fraction p is min(saved / target * 100, 100), for target > 0
PercentualLimitado(p, saved, target) ==
    IF saved >= target THEN p.num = 100 * p.den
    ELSE p.num * target = saved * 100 * p.den

\* C13: the goals page gives every goal saved = incomes dated on or before
\* the target date minus expenses dated on or before it, and progress = 0 for
\* a target amount <= 0, min(saved / target * 100, 100) otherwise; a negative
\* saved gives a negative progress.
C13_ProgressoDaMeta ==
    last.op = "metas_com_progresso" =>
       /\ Len(last.ret) = Len(csv["metas"])
       /\ \A k \in DOMAIN last.ret :
            LET m == last.ret[k]
                saved == PoupadoAte(csv, to_datetime(csv["metas"][k].data))
                target == csv["metas"][k].valor
            IN  /\ m.economias = saved
                /\ m.progresso.den > 0
                /\ IF target <= 0 THEN m.progresso.num = 0
                   ELSE PercentualLimitado(m.progresso, saved, target)
                /\ (target > 0 /\ saved < 0) => m.progresso.num < 0

\* a goal shown with more expenses than incomes up to its date: saved < 0
C13_Witness ==
    /\ last.op = "metas_com_progresso"
    /\ \E k \in DOMAIN last.ret :
         last.ret[k].economias < 0 /\ last.ret[k].progresso.num < 0

RazaoMenorIgual(a, b) == a.num * b.den <= b.num * a.den

ProgressosApos(arquivos) ==
    metas_com_progresso(carregar_dados(arquivos, "receitas"),
                        carregar_dados(arquivos, "despesas"),
                        carregar_dados(arquivos, "metas"))

\* saved amounts below zero, below the targets and above them
Poupados == -4..4

\* C14: for a target amount > 0 the progress never decreases when saved
\* grows and never exceeds 100; it is exactly 100 once saved reaches the
\* target; and adding an income dated on or before a goal's date does not
\* lower that goal's progress.
C14_ProgressoMonotonoLimitado ==
    [][/\ last'.op = "metas_com_progresso" =>
            /\ \A v \in AppValores, s1 \in Poupados, s2 \in Poupados :
                  s1 <= s2 =>
                     RazaoMenorIgual(progresso(s1, v), progresso(s2, v))
            /\ \A k \in DOMAIN last'.ret :
                  LET m == last'.ret[k] IN
                  m.valor > 0 =>
                     /\ m.progresso.num <= 100 * m.progresso.den
                     /\ m.economias >= m.valor => m.progresso = Razao(100, 1)
       /\ (last'.op = "app_adicionar" /\ last'.tabela = "receitas"
             /\ last'.ret = "success") =>
            \A k \in DOMAIN csv["metas"] :
               DataMenorIgual(last'.args[1], to_datetime(csv["metas"][k].data)) =>
                  RazaoMenorIgual(ProgressosApos(csv)[k].progresso,
                                  ProgressosApos(csv')[k].progresso)]_vars

\* a goal of 1 shown with 3 saved: progress 100, not 300
C14_Witness ==
    /\ last.op = "metas_com_progresso"
    /\ \E k \in DOMAIN last.ret :
         /\ last.ret[k].valor = 1
         /\ last.ret[k].economias = 3
         /\ last.ret[k].progresso = Razao(100, 1)

\* C21 (as claimed): when a call has returned, on the normal path or with its
\* statement having raised, no connection it opened is still open.
C21_ConexaoLiberada ==
    last # Ocioso => abertas = 0

\* the number of rows of the table tab that equal row
Vezes(tab, row) == Cardinality({i \in DOMAIN tab : tab[i] = row})

MesmasLinhas(antes, depois) ==
    /\ Cardinality(DOMAIN antes) = Cardinality(DOMAIN depois)
    /\ \A i \in DOMAIN antes : Vezes(antes, antes[i]) = Vezes(depois, antes[i])

\* C22 (as claimed): importing what exportar_dados returned leaves every
\* table with as many rows as before and with the same rows, counted with
\* their multiplicity and compared on every column but the id (date,
\* description, amount, category, and status for goals).
C22_ExportarImportar ==
    [][(last'.op = "importar_dados" /\ last'.args[1] \in exportar_dados(Banco))
          => \A t \in Tabelas : MesmasLinhas(db[t], db'[t])]_vars

\* C23: the figures of obter_estatisticas_gerais agree with the list calls
\* under the same date bounds: total and count of incomes are the sum of the
\* amounts and the number of rows of obter_receitas, those of expenses the
\* same for obter_despesas, and saldo is the one total minus the other.
C23_EstatisticasConformeListas ==
    last.op = "obter_estatisticas_gerais" =>
       /\ \A f \in obter_receitas(Banco, last.args[1], last.args[2], None) :
             /\ last.ret.total_receitas = SomaColuna(f, "valor")
             /\ last.ret.count_receitas = Len(f)
       /\ \A f \in obter_despesas(Banco, last.args[1], last.args[2], None) :
             /\ last.ret.total_despesas = SomaColuna(f, "valor")
             /\ last.ret.count_despesas = Len(f)
       /\ last.ret.saldo = last.ret.total_receitas - last.ret.total_despesas

\* statistics under a lower date bound that keeps the one stored income and
\* leaves out the one stored expense
C23_Witness ==
    /\ last.op = "obter_estatisticas_gerais"
    /\ last.args[1] # None
    /\ DOMAIN db["receitas"] # {}
    /\ DOMAIN db["despesas"] # {}
    /\ last.ret.count_receitas = 1
    /\ last.ret.count_despesas = 0
    /\ last.ret.total_receitas # 0

\* C24: pressing delete for the row selected in the filtered view of the
\* income or the expense page, or in the list of the goal page, removes from
\* that CSV file exactly the record shown for the selection, which is one the
\* filters let through, and nothing else: the other records of the file stay
\* as they were and in the same order, and the other files are untouched.
C24_ExcluirDaVisao ==
    [][last'.op = "app_excluir" =>
         LET a == last'.tabela
             i == last'.args[1]
         IN  /\ i + 1 \in DOMAIN csv[a]
             /\ salvar_dados(<<last'.ret>>)[1] = csv[a][i + 1]
             /\ Len(csv'[a]) = Len(csv[a]) - 1
             /\ \A k \in DOMAIN csv'[a] :
                   csv'[a][k] = csv[a][IF k <= i THEN k ELSE k + 1]
             /\ \A b \in Arquivos \ {a} : csv'[b] = csv[b]
             /\ a # "metas" =>
                   /\ last'.args[2] # "Todas"
                         => last'.ret.categoria = last'.args[2]
                   /\ DataDentro(last'.ret.data, last'.args[3], last'.args[4])]_vars

\* the second income was deleted from a view filtered to its category and to
\* its date, which hid the first income; the first is still in the file
C24_Witness ==
    /\ last.op = "app_excluir"
    /\ last.tabela = "receitas"
    /\ last.args[1] = 1
    /\ last.args[2] = "Outros"
    /\ last.args[3] = last.args[4]
    /\ Len(csv["receitas"]) = 1
    /\ csv["receitas"][1].categoria = "Planilha"
    /\ csv["receitas"][1].data # adapt_date(last.args[3])

\* C25 (as claimed): ticking the confirmation checkbox after a press of the
\* clear-all button leaves the three CSV files without records, and the press
\* alone leaves the three files as they were.
C25_LimparComConfirmacao ==
    [][/\ (last'.op = "limpar_todos_os_dados" /\ last'.args = <<TRUE, FALSE>>)
            => csv' = csv
       /\ (ConfirmacaoNaTela /\ last'.op = "limpar_todos_os_dados"
              /\ last'.args[2])
            => \A a \in Arquivos : csv'[a] = <<>>]_vars

\* C26 (as claimed): whenever the dashboard computes the start of its
\* six-month window, no error is raised and the start is a calendar date that
\* exists, with the day of the current date, six months before its month.
C26_JanelaDeSeisMeses ==
    (last.op = "dashboard" /\ last.ret # None) =>
       LET hoje == last.args[1]
           janela == last.ret[1]
       IN  /\ janela.raise = ""
           /\ Len(janela.data) = 3
           /\ janela.data[2] \in 1..12
           /\ janela.data[3] \in 1..DiasNoMes(janela.data[1], janela.data[2])
           /\ janela.data[3] = hoje[3]
           /\ (hoje[1] * 12 + hoje[2]) - (janela.data[1] * 12 + janela.data[2]) = 6

====
